---- MODULE Spec2Model ----
(***************************************************************************)
(* A model of libgit.py: the repository handle, the bootstrapper, the      *)
(* locator and the object store, over an explicit model of the file        *)
(* system.                                                                 *)
(*                                                                         *)
(* Paths are sequences of names from the file system root << >>.  A file   *)
(* system is a function from the existing paths to nodes; every existing   *)
(* path's parent exists and is a directory.  File contents are sequences   *)
(* of tokens (bytes or words).  Exceptions are named by strings, "" being  *)
(* "no exception"; the generic Exceptions of the source are named after    *)
(* the error kinds their messages stand for.                               *)
(***************************************************************************)
EXTENDS Integers, Sequences, FiniteSets, TLC

VARIABLES fs, ret, find, created, wlog, pc, loc

vars == <<fs, ret, find, created, wlog, pc, loc>>

\* Depth of the deepest work tree path /d/d/.../d.
MaxDepth == 3

(***************************************************************************)
(* The file system (os, os.path).                                          *)
(***************************************************************************)
Root == << >>

DirNode == [kind |-> "dir", content |-> << >>]

FileNode(c) == [kind |-> "file", content |-> c]

RootFs == (Root :> DirNode)

exists(f, p) == p \in DOMAIN f

isdir(f, p) == p \in DOMAIN f /\ f[p].kind = "dir"

isfile(f, p) == p \in DOMAIN f /\ f[p].kind = "file"

Prefixes(p) == { SubSeq(p, 1, k) : k \in 0..Len(p) }

\* os.path.realpath(os.path.join(path, "..")): the root is its own parent.
Parent(p) == IF p = Root THEN Root ELSE SubSeq(p, 1, Len(p) - 1)

\* os.makedirs(path) without exist_ok: missing ancestors are created; an
\* existing leaf is FileExistsError, a regular file on the way is
\* NotADirectoryError.
makedirs(f, p) ==
    IF exists(f, p) THEN [exc |-> "FileExistsError", fs |-> f]
    ELSE IF \E q \in Prefixes(p) : isfile(f, q)
         THEN [exc |-> "NotADirectoryError", fs |-> f]
    ELSE [exc |-> "",
          fs  |-> [q \in (DOMAIN f) \cup Prefixes(p) |->
                      IF q \in DOMAIN f THEN f[q] ELSE DirNode]]

\* x = <expression>; <statements using x>: a local variable, evaluated once
\* (F is applied to the value of x, not to the expression).
Bind(x, F(_)) == CHOOSE y \in { F(v) : v \in {x} } : TRUE

\* open(path, "w") / open(path, "wb"): creates the file or truncates it.
open_w(f, p) ==
    IF ~isdir(f, Parent(p)) THEN [exc |-> "FileNotFoundError", fs |-> f]
    ELSE IF isdir(f, p) THEN [exc |-> "IsADirectoryError", fs |-> f]
    ELSE [exc |-> "", fs |-> [q \in (DOMAIN f) \cup {p} |->
                                 IF q = p THEN FileNode(<< >>) ELSE f[q]]]

\* f.write(data) on a file just opened for writing, flushed when the with
\* block ends: data goes to offset 0, over what the file holds there.
write(f, p, data) ==
    [f EXCEPT ![p] = FileNode(data \o SubSeq(f[p].content, Len(data) + 1, Len(f[p].content)))]

\* with open(path, "w") as f: f.write(data)
write_file(f, p, data) ==
    LET o == open_w(f, p) IN
    IF o.exc # "" THEN o ELSE [exc |-> "", fs |-> write(o.fs, p, data)]

(***************************************************************************)
(* configparser: an INI file is a token sequence with "\n" ending a line;  *)
(* a parsed configuration is a sequence of sections.                       *)
(***************************************************************************)
RECURSIVE RenderOptions(_)
RenderOptions(opts) ==
    IF opts = << >> THEN << >>
    ELSE <<Head(opts)[1], "=", Head(opts)[2], "\n">> \o RenderOptions(Tail(opts))

\* ConfigParser.write: "[section]", its "key = value" lines, a blank line.
RECURSIVE RenderIni(_)
RenderIni(conf) ==
    IF conf = << >> THEN << >>
    ELSE <<"[", Head(conf).name, "]", "\n">> \o RenderOptions(Head(conf).options)
         \o <<"\n">> \o RenderIni(Tail(conf))

\* The index of the first "\n" of toks, Len(toks) + 1 when there is none.
LineEnd(toks) ==
    IF \E i \in 1..Len(toks) : toks[i] = "\n"
    THEN CHOOSE i \in 1..Len(toks) :
            toks[i] = "\n" /\ \A j \in 1..(i - 1) : toks[j] # "\n"
    ELSE Len(toks) + 1

\* The tokens of the first line of toks (without its "\n").
FirstLine(toks) == SubSeq(toks, 1, LineEnd(toks) - 1)

RestLines(toks) ==
    IF LineEnd(toks) >= Len(toks) THEN << >>
    ELSE SubSeq(toks, LineEnd(toks) + 1, Len(toks))

\* One line read by ConfigParser: a blank line is skipped, "[name]" opens a
\* section, "key = value" adds an option to the open section; any other
\* line, or an option before the first section, is an error.
ParseLine(line, conf) ==
    IF line = << >> THEN [exc |-> "", conf |-> conf]
    ELSE IF Len(line) = 3 /\ line[1] = "[" /\ line[3] = "]"
         THEN [exc |-> "", conf |-> Append(conf, [name |-> line[2], options |-> << >>])]
    ELSE IF conf = << >>
         THEN [exc |-> "MissingSectionHeaderError", conf |-> conf]
    ELSE IF Len(line) = 3 /\ line[2] = "="
         THEN [exc  |-> "",
               conf |-> [conf EXCEPT ![Len(conf)].options = Append(@, <<line[1], line[3]>>)]]
    ELSE [exc |-> "ParsingError", conf |-> conf]

\* ConfigParser.read on a file's text, line by line; conf is what was read
\* so far.  The first error ends the read.
RECURSIVE ParseIni(_, _)
ParseIni(toks, conf) ==
    IF toks = << >> THEN [exc |-> "", conf |-> conf]
    ELSE Bind(ParseLine(FirstLine(toks), conf), LAMBDA r :
         IF r.exc # "" THEN r
         ELSE Bind(RestLines(toks), LAMBDA rest : ParseIni(rest, r.conf)))

\* ConfigParser.read([cf]): a file that cannot be opened is skipped.
conf_read(f, cf) ==
    IF ~isfile(f, cf) THEN [exc |-> "", conf |-> << >>]
    ELSE ParseIni(f[cf].content, << >>)

\* ConfigParser.get(section, option)
conf_get(conf, section, option) ==
    IF \A i \in 1..Len(conf) : conf[i].name # section
    THEN [exc |-> "NoSectionError", val |-> ""]
    ELSE Bind(conf[CHOOSE i \in 1..Len(conf) : conf[i].name = section].options, LAMBDA opts :
         IF \A j \in 1..Len(opts) : opts[j][1] # option
         THEN [exc |-> "NoOptionError", val |-> ""]
         ELSE [exc |-> "",
               val |-> opts[CHOOSE j \in 1..Len(opts) :
                              /\ opts[j][1] = option
                              /\ \A k \in (j + 1)..Len(opts) : opts[k][1] # option][2]])

Digits == <<"0", "1", "2", "3", "4", "5", "6", "7", "8", "9">>

IsDigit(c) == \E i \in 1..10 : Digits[i] = c

DigitValue(c) == (CHOOSE i \in 1..10 : Digits[i] = c) - 1

\* int(s) for a one-token string: a decimal digit, else ValueError.
int_str(s) ==
    IF IsDigit(s) THEN [exc |-> "", val |-> DigitValue(s)]
    ELSE [exc |-> "ValueError", val |-> 0]

\* repo_default_config()
repo_default_config ==
    << [name    |-> "core",
        options |-> << <<"repositoryformatversion", "0">>,
                       <<"filemode", "false">>,
                       <<"bare", "false">> >>] >>

(***************************************************************************)
(* Repository handle and path helpers.                                     *)
(***************************************************************************)
GitDirName == ".git"

\* repo_path(repo, *path)
repo_path(repo, path) == repo.gitdir \o path

\* repo_dir(repo, *path, mkdir): [exc, none, val, fs]; none is the None result.
repo_dir(f, repo, path, mkdir) ==
    Bind(repo_path(repo, path), LAMBDA p :
    IF exists(f, p)
    THEN IF isdir(f, p)
         THEN [exc |-> "", none |-> FALSE, val |-> p, fs |-> f]
         ELSE [exc |-> "NotADirectory", none |-> FALSE, val |-> p, fs |-> f]
    ELSE IF mkdir
         THEN Bind(makedirs(f, p), LAMBDA m :
              [exc |-> m.exc, none |-> FALSE, val |-> p, fs |-> m.fs])
         ELSE [exc |-> "", none |-> TRUE, val |-> p, fs |-> f])

\* repo_file(repo, *path, mkdir): the path when the containing directory is
\* there (or was made), None otherwise.
repo_file(f, repo, path, mkdir) ==
    Bind(repo_dir(f, repo, SubSeq(path, 1, Len(path) - 1), mkdir), LAMBDA d :
    IF d.exc # "" \/ d.none THEN d
    ELSE [d EXCEPT !.val = repo_path(repo, path)])

unsupported_version_never(vers) == FALSE

\* vers != 0, line 73
unsupported_version(vers) == vers # 0

\* vers = int(self.conf.get("core", "repositoryformatversion")) and its test
\* (lines 71-74): the exception raised, "" when the version is supported.
check_version(conf) ==
    Bind(conf_get(conf, "core", "repositoryformatversion"), LAMBDA g :
    IF g.exc # "" THEN g.exc
    ELSE Bind(int_str(g.val), LAMBDA v :
         IF v.exc # "" THEN v.exc
         ELSE IF unsupported_version(v.val) THEN "UnsupportedFormatVersion"
         ELSE ""))

\* Reading the configuration (lines 63-69): [exc, conf].
load_conf(f, self, force) ==
    Bind(repo_file(f, self, <<"config">>, FALSE), LAMBDA cf :
    IF cf.exc # "" THEN [exc |-> cf.exc, conf |-> << >>]
    ELSE IF ~cf.none /\ exists(f, cf.val) THEN conf_read(f, cf.val)
    ELSE IF ~force THEN [exc |-> "ConfigMissing", conf |-> << >>]
    ELSE [exc |-> "", conf |-> << >>])

\* Repository.__init__(path, force): [exc, val]; val is the handle.
Repository(f, path, force) ==
    Bind([worktree |-> path, gitdir |-> Append(path, GitDirName), conf |-> << >>],
         LAMBDA self :
    IF ~(force \/ isdir(f, self.gitdir)) THEN [exc |-> "NotARepository", val |-> self]
    ELSE Bind(load_conf(f, self, force), LAMBDA rd :
         IF rd.exc # "" THEN [exc |-> rd.exc, val |-> self]
         ELSE IF force THEN [exc |-> "", val |-> [self EXCEPT !.conf = rd.conf]]
         ELSE [exc |-> check_version(rd.conf), val |-> [self EXCEPT !.conf = rd.conf]]))

(***************************************************************************)
(* Bootstrapper and locator.                                               *)
(***************************************************************************)
NoRepo == [worktree |-> Root, gitdir |-> Root, conf |-> << >>]

DescriptionText ==
    <<"Unnamed repository; edit this file 'description' to name the repository.", "\n">>

HeadText == <<"ref: refs/heads/master", "\n">>

\* assert repo_dir(repo, *path, mkdir=True)
assert_repo_dir(f, repo, path) ==
    LET d == repo_dir(f, repo, path, TRUE) IN
    [exc |-> IF d.exc = "" /\ d.none THEN "AssertionError" ELSE d.exc, fs |-> d.fs]

\* with open(repo_file(repo, name), "w") as f: f.write(data)
write_repo_file(f, repo, name, data) ==
    LET p == repo_file(f, repo, <<name>>, FALSE) IN
    IF p.exc # "" THEN [exc |-> p.exc, fs |-> f]
    ELSE IF p.none THEN [exc |-> "TypeError", fs |-> f]
    ELSE write_file(f, p.val, data)

\* The work tree test of repo_create (lines 207-213).
create_worktree(f, repo) ==
    IF exists(f, repo.worktree)
    THEN IF ~isdir(f, repo.worktree) THEN [exc |-> "TargetNotDirectory", fs |-> f]
         ELSE IF exists(f, repo.gitdir) THEN [exc |-> "RepositoryAlreadyExists", fs |-> f]
         ELSE [exc |-> "", fs |-> f]
    ELSE makedirs(f, repo.worktree)

\* The statements of repo_create after the work tree test, in order: the
\* four asserted directories, then the three files.
create_steps ==
    << [mk |-> TRUE,  path |-> <<"branches">>,      data |-> << >>],
       [mk |-> TRUE,  path |-> <<"objects">>,       data |-> << >>],
       [mk |-> TRUE,  path |-> <<"refs", "tags">>,  data |-> << >>],
       [mk |-> TRUE,  path |-> <<"refs", "heads">>, data |-> << >>],
       [mk |-> FALSE, path |-> <<"description">>,   data |-> DescriptionText],
       [mk |-> FALSE, path |-> <<"HEAD">>,          data |-> HeadText],
       [mk |-> FALSE, path |-> <<"config">>,        data |-> RenderIni(repo_default_config)] >>

\* Runs the statements in order; the first exception ends the run.
RECURSIVE run_steps(_, _, _)
run_steps(f, repo, steps) ==
    IF steps = << >> THEN [exc |-> "", fs |-> f]
    ELSE LET st == Head(steps)
             r  == IF st.mk THEN assert_repo_dir(f, repo, st.path)
                   ELSE write_repo_file(f, repo, st.path[1], st.data)
         IN  IF r.exc # "" THEN r ELSE run_steps(r.fs, repo, Tail(steps))

\* repo_create(path): [exc, val, fs]
repo_create(f, path) ==
    Bind(Repository(f, path, TRUE), LAMBDA r :
    IF r.exc # "" THEN [exc |-> r.exc, val |-> r.val, fs |-> f]
    ELSE Bind(create_worktree(f, r.val), LAMBDA w :
         IF w.exc # "" THEN [exc |-> w.exc, val |-> r.val, fs |-> f]
         ELSE Bind(run_steps(w.fs, r.val, create_steps), LAMBDA s :
              [exc |-> s.exc, val |-> r.val, fs |-> s.fs])))

\* os.path.isdir(os.path.join(path, ".git")), line 247
has_gitdir(f, path) == isdir(f, Append(path, GitDirName))

find_parent_grandparent(path) == Parent(Parent(path))

\* parent = os.path.realpath(os.path.join(path, "..")), line 250
find_parent(path) == Parent(path)

at_root_never(path, parent) == FALSE

\* parent == path, line 252
at_root(path, parent) == parent = path

\* One invocation of repo_find(path, required), up to its recursive call:
\* done with a handle, an exception or None, or not done and next the parent.
repo_find_frame(f, path, required) ==
    IF has_gitdir(f, path)
    THEN Bind(Repository(f, path, FALSE), LAMBDA r :
         [done |-> TRUE, exc |-> r.exc, none |-> FALSE, val |-> r.val, next |-> path])
    ELSE LET parent == find_parent(path) IN
         IF at_root(path, parent)
         THEN IF required
              THEN [done |-> TRUE, exc |-> "RepositoryNotFound", none |-> FALSE,
                    val |-> NoRepo, next |-> path]
              ELSE [done |-> TRUE, exc |-> "", none |-> TRUE, val |-> NoRepo, next |-> path]
         ELSE [done |-> FALSE, exc |-> "", none |-> FALSE, val |-> NoRepo, next |-> parent]

(***************************************************************************)
(* State.  fs is the file system; ret the last completed call: its name,   *)
(* arguments, outcome and the file system it started from; find the        *)
(* pending recursion of repo_find; created the paths repo_create has       *)
(* succeeded on; wlog counts the opens for writing of each object file.    *)
(* pc and loc belong to the processes of the concurrent specification.     *)
(***************************************************************************)
NoSha == <<"", "">>

NoObj == [fmt |-> << >>, blobdata |-> << >>]

Ret(op, path, flag, r, pre) ==
    [op |-> op, path |-> path, flag |-> flag, exc |-> r.exc, none |-> r.none,
     repo |-> r.val, sha |-> NoSha, obj |-> NoObj, pre |-> pre]

NoRet ==
    [op |-> "none", path |-> Root, flag |-> FALSE, exc |-> "", none |-> TRUE,
     repo |-> NoRepo, sha |-> NoSha, obj |-> NoObj, pre |-> RootFs]

NoFind == [active |-> FALSE, path |-> Root, required |-> FALSE, start |-> Root]

NoWlog == [p \in {} |-> 0]

\* /d/d/.../d, k levels deep.
Chain(k) == [i \in 1..k |-> "d"]

WorkPaths == { Chain(k) : k \in 0..MaxDepth }

ConfigWithVersion(v) ==
    RenderIni(<< [name |-> "core", options |-> << <<"repositoryformatversion", v>> >>] >>)

\* Config files a repository may be found with.
EnvConfigs ==
    { RenderIni(repo_default_config), ConfigWithVersion("1"), ConfigWithVersion("2"),
      ConfigWithVersion("x"), << >>, <<"garbage", "\n">> }

DirAt(w) == makedirs(RootFs, w).fs

\* The file systems the program may be started on: the bare root; a work
\* path that is a directory, or a regular file; a work path holding .git as
\* a regular file, as an empty directory, or as a directory with a config.
EnvFileSystems ==
    {RootFs}
    \cup { DirAt(w) : w \in WorkPaths }
    \cup { write_file(DirAt(Parent(w)), w, << >>).fs : w \in WorkPaths \ {Root} }
    \cup { write_file(DirAt(w), Append(w, GitDirName), <<"gitdir:", "elsewhere", "\n">>).fs :
             w \in WorkPaths }
    \cup { DirAt(Append(w, GitDirName)) : w \in WorkPaths }
    \cup { write_file(DirAt(Append(w, GitDirName)), w \o <<GitDirName, "config">>, c).fs :
             w \in WorkPaths, c \in EnvConfigs }

RepoInit ==
    /\ fs \in EnvFileSystems
    /\ ret = NoRet
    /\ find = NoFind
    /\ created = {}
    /\ wlog = NoWlog
    /\ pc = << >>
    /\ loc = << >>

\* repo_create(path)
RepoCreateCall(path) ==
    /\ ~find.active
    /\ \E r \in {repo_create(fs, path)} :
       /\ fs' = r.fs
       /\ ret' = Ret("repo_create", path, TRUE, [exc |-> r.exc, none |-> FALSE, val |-> r.val], fs)
       /\ created' = IF r.exc = "" THEN created \cup {path} ELSE created
    /\ UNCHANGED <<find, wlog, pc, loc>>

\* Repository(path, force)
RepositoryCall(path, force) ==
    /\ ~find.active
    /\ \E r \in {Repository(fs, path, force)} :
       ret' = Ret("Repository", path, force, [exc |-> r.exc, none |-> FALSE, val |-> r.val], fs)
    /\ UNCHANGED <<fs, find, created, wlog, pc, loc>>

\* The effect of one invocation of repo_find on the state.
FindFrame(start, path, required) ==
    \E r \in {repo_find_frame(fs, path, required)} :
    IF r.done
    THEN /\ ret' = Ret("repo_find", start, required, r, fs)
         /\ find' = NoFind
    ELSE /\ find' = [active |-> TRUE, path |-> r.next, required |-> required, start |-> start]
         /\ ret' = NoRet

\* repo_find(path, required): the outermost invocation.
RepoFindCall(start, required) ==
    /\ ~find.active
    /\ FindFrame(start, start, required)
    /\ UNCHANGED <<fs, created, wlog, pc, loc>>

\* return repo_find(parent, required): the next invocation.
RepoFindRecurse ==
    /\ find.active
    /\ FindFrame(find.start, find.path, find.required)
    /\ UNCHANGED <<fs, created, wlog, pc, loc>>

RepoNext ==
    \/ \E path \in WorkPaths : RepoCreateCall(path)
    \/ \E path \in WorkPaths, force \in BOOLEAN : RepositoryCall(path, force)
    \/ \E start \in WorkPaths, required \in BOOLEAN : RepoFindCall(start, required)
    \/ RepoFindRecurse

RepoSpec == RepoInit /\ [][RepoNext]_vars

\* repo_find is synchronous: a pending invocation always runs.
RepoFairSpec == RepoSpec /\ WF_vars(RepoFindRecurse)

(***************************************************************************)
(* Properties of the bootstrapper, the handle and the locator.             *)
(***************************************************************************)
GitDirOf(path) == Append(path, GitDirName)

ConfigOf(path) == path \o <<GitDirName, "config">>

\* The work paths from start up to the root that hold a metadata directory.
GitDirsAbove(f, start) == { p \in Prefixes(start) : isdir(f, GitDirOf(p)) }

Nearest(f, start) ==
    CHOOSE p \in GitDirsAbove(f, start) : \A q \in GitDirsAbove(f, start) : Len(q) <= Len(p)

\* C5: when the nearest metadata directory at or above the start of a
\* completed repo_find is one that repo_create made, repo_find returned a
\* handle, every check of the non-force open having passed, and the handle's
\* metadata directory is that directory.
C5_FindAfterCreate ==
    (ret.op = "repo_find" /\ GitDirsAbove(fs, ret.path) # {}
        /\ Nearest(fs, ret.path) \in created)
    => /\ ret.exc = ""
       /\ ~ret.none
       /\ ret.repo.worktree = Nearest(fs, ret.path)
       /\ ret.repo.gitdir = GitDirOf(Nearest(fs, ret.path))

\* repo_find, started two levels below a repository that repo_create made,
\* has returned.
C5_Witness ==
    /\ ret.op = "repo_find"
    /\ GitDirsAbove(fs, ret.path) # {}
    /\ Nearest(fs, ret.path) \in created
    /\ Len(ret.path) >= Len(Nearest(fs, ret.path)) + 2
    /\ ret.exc = ""

\* C6: repo_create(P) fails with RepositoryAlreadyExists whenever P/.git
\* exists and with TargetNotDirectory whenever P is a regular file, and a
\* failed call leaves the file system as it was.
C6_CreateFailures ==
    ret.op = "repo_create"
    => /\ exists(ret.pre, GitDirOf(ret.path))
            => (ret.exc = "RepositoryAlreadyExists" /\ fs = ret.pre)
       /\ isfile(ret.pre, ret.path)
            => (ret.exc = "TargetNotDirectory" /\ fs = ret.pre)

\* The part of C6 the code keeps: P/.git a directory whose config is absent
\* or parses; P a regular file; and no failed repo_create changes anything.
CreateFailuresOnDirectory ==
    ret.op = "repo_create"
    => /\ (isdir(ret.pre, GitDirOf(ret.path))
             /\ conf_read(ret.pre, ConfigOf(ret.path)).exc = "")
            => ret.exc = "RepositoryAlreadyExists"
       /\ isfile(ret.pre, GitDirOf(ret.path)) => ret.exc = "NotADirectory"
       /\ isfile(ret.pre, ret.path) => ret.exc = "TargetNotDirectory"
       /\ (exists(ret.pre, GitDirOf(ret.path)) \/ isfile(ret.pre, ret.path))
            => (ret.exc # "" /\ fs = ret.pre)

\* The config file under gitdir parses and declares format version 0.
DeclaresVersionZero(f, gitdir) ==
    /\ isfile(f, Append(gitdir, "config"))
    /\ ParseIni(f[Append(gitdir, "config")].content, << >>).exc = ""
    /\ conf_get(ParseIni(f[Append(gitdir, "config")].content, << >>).conf,
                "core", "repositoryformatversion") = [exc |-> "", val |-> "0"]

\* C7: a non-force Repository(path) fails with NotARepository when path/.git
\* is no directory, with ConfigMissing when path/.git/config is absent, with
\* UnsupportedFormatVersion when the config declares a version other than 0;
\* a handle returned by a non-force open or by repo_find has an existing
\* metadata directory whose config declares version 0.
C7_OpenChecks ==
    /\ (ret.op = "Repository" /\ ~ret.flag)
       => /\ ~isdir(ret.pre, GitDirOf(ret.path)) => ret.exc = "NotARepository"
          /\ (isdir(ret.pre, GitDirOf(ret.path)) /\ ~exists(ret.pre, ConfigOf(ret.path)))
                => ret.exc = "ConfigMissing"
          /\ (isfile(ret.pre, ConfigOf(ret.path))
                /\ \E v \in {"1", "2"} :
                      ret.pre[ConfigOf(ret.path)].content = ConfigWithVersion(v))
                => ret.exc = "UnsupportedFormatVersion"
    /\ (((ret.op = "Repository" /\ ~ret.flag) \/ ret.op = "repo_find")
          /\ ret.exc = "" /\ ~ret.none)
       => /\ isdir(fs, ret.repo.gitdir)
          /\ DeclaresVersionZero(fs, ret.repo.gitdir)

\* A non-force open has refused a config that declares another version.
C7_Witness ==
    /\ ret.op = "Repository"
    /\ ~ret.flag
    /\ isfile(ret.pre, ConfigOf(ret.path))
    /\ ret.exc = "UnsupportedFormatVersion"

\* C8: repo_find terminates, each invocation moving one level up; when no
\* directory from the start to the root holds a metadata directory it ends
\* with RepositoryNotFound if required, with None if not, never a handle.
C8_FindTerminates ==
    /\ [](find.active => <>(~find.active))
    /\ [][(find.active /\ find'.active) => Len(find'.path) < Len(find.path)]_vars
    /\ []((ret.op = "repo_find" /\ GitDirsAbove(fs, ret.path) = {})
            => IF ret.flag THEN ret.exc = "RepositoryNotFound" /\ ~ret.none
               ELSE ret.exc = "" /\ ret.none)

\* A required search from the deepest path, with no metadata directory on
\* the way, has reached the root and failed.
C8_Witness ==
    /\ ret.op = "repo_find"
    /\ Len(ret.path) = MaxDepth
    /\ GitDirsAbove(fs, ret.path) = {}
    /\ ret.flag
    /\ ret.exc = "RepositoryNotFound"

(***************************************************************************)
(* Object codec and object store.  Bytes are one-character tokens.         *)
(***************************************************************************)
\* Number of payloads, taken from the head of Payloads, the model writes.
NumPayloads == 3

NulByte == "\\x00"

\* GitBlob.fmt
BlobFmt == <<"b", "l", "o", "b">>

\* Payloads of the blobs written; the first two share a fan-out directory.
Payloads ==
    << << >>, <<"c", "a", "a">>, <<"a", "b", "c">>, <<"a">>, <<"b">>, <<"c">> >>

\* A GitBlob() whose blobdata was set to payload.
GitBlob(payload) == [fmt |-> BlobFmt, blobdata |-> payload]

Objects == { GitBlob(Payloads[i]) : i \in 1..NumPayloads }

\* GitBlob.serialize
serialize(obj) == obj.blobdata

\* str(n).encode(): the decimal digits of n.
RECURSIVE Decimal(_)
Decimal(n) ==
    IF n < 10 THEN <<Digits[n + 1]>>
    ELSE Decimal(n \div 10) \o <<Digits[(n % 10) + 1]>>

\* obj.fmt + b" " + str(len(data)).encode() + b"\x00" + data
frame(obj) ==
    obj.fmt \o <<" ">> \o Decimal(Len(serialize(obj))) \o <<NulByte>> \o serialize(obj)

\* SHA-1 of the frames of Payloads, as computed by hashlib; a hexdigest is
\* kept as the pair of its slices sha[0:2] and sha[2:].
Sha1Table ==
    <<
       [input     |-> <<"b", "l", "o", "b", " ", "0", NulByte>>,
        hexdigest |-> <<"e6", "9de29bb2d1d6434b8b29ae775ad8c2e48c5391">>],
       [input     |-> <<"b", "l", "o", "b", " ", "3", NulByte, "c", "a", "a">>,
        hexdigest |-> <<"e6", "8eb3b0c8c32ce963ea6e834cb42a3ff52e9765">>],
       [input     |-> <<"b", "l", "o", "b", " ", "3", NulByte, "a", "b", "c">>,
        hexdigest |-> <<"f2", "ba8f84ab5c1bce84a7b441cb1959cfc7093b7f">>],
       [input     |-> <<"b", "l", "o", "b", " ", "1", NulByte, "a">>,
        hexdigest |-> <<"2e", "65efe2a145dda7ee51d1741299f848e5bf752e">>],
       [input     |-> <<"b", "l", "o", "b", " ", "1", NulByte, "b">>,
        hexdigest |-> <<"63", "d8dbd40c23542e740659a7168a0ce3138ea748">>],
       [input     |-> <<"b", "l", "o", "b", " ", "1", NulByte, "c">>,
        hexdigest |-> <<"34", "10062ba67c5ed59b854387a8bc0ec012479368">>]
    >>

\* hashlib.sha1(result).hexdigest()
sha1(result) ==
    Sha1Table[CHOOSE i \in 1..Len(Sha1Table) : Sha1Table[i].input = result].hexdigest

Digests == { Sha1Table[i].hexdigest : i \in 1..NumPayloads }

\* zlib.compress / zlib.decompress: a stream is the data between a header
\* and a checksum trailer; anything else is zlib.error.
zlib_compress(data) == <<"zlib-header">> \o data \o <<"zlib-adler32">>

zlib_decompress(stream) ==
    IF Len(stream) >= 2 /\ stream[1] = "zlib-header" /\ stream[Len(stream)] = "zlib-adler32"
    THEN [exc |-> "", val |-> SubSeq(stream, 2, Len(stream) - 1)]
    ELSE [exc |-> "zlib.error", val |-> << >>]

\* The arguments of repo_file for a digest: "objects", sha[0:2], sha[2:].
object_segments(sha) == <<"objects", sha[1], sha[2]>>

truthy_always(repo) == TRUE

\* if repo: (line 150); None is the only falsy value passed.
truthy(repo) == repo # NoRepo

missing_always(f, path) == TRUE

\* not os.path.exists(path), line 153
missing(f, path) == ~exists(f, path)

\* Lines 153-155: [exc, fs, opened]; opened tells that the object file was
\* opened for writing.
persist(f, path, result) ==
    IF missing(f, path)
    THEN Bind(write_file(f, path, zlib_compress(result)), LAMBDA w :
         [exc |-> w.exc, fs |-> w.fs, opened |-> TRUE])
    ELSE [exc |-> "", fs |-> f, opened |-> FALSE]

\* object_write(obj, repo): [exc, sha, fs, path, opened]
object_write(f, obj, repo) ==
    Bind(sha1(frame(obj)), LAMBDA sha :
    IF truthy(repo)
    THEN Bind(repo_file(f, repo, object_segments(sha), TRUE), LAMBDA path :
         IF path.exc # ""
         THEN [exc |-> path.exc, sha |-> sha, fs |-> path.fs, path |-> path.val,
               opened |-> FALSE]
         ELSE Bind(persist(path.fs, path.val, frame(obj)), LAMBDA w :
              [exc |-> w.exc, sha |-> sha, fs |-> w.fs, path |-> path.val,
               opened |-> w.opened]))
    ELSE [exc |-> "", sha |-> sha, fs |-> f, path |-> Root, opened |-> FALSE])

\* Python's s[a:b] on a sequence, indices counted from 0, negative ones from the end.
SliceIndex(s, i) ==
    IF i < 0 THEN (IF Len(s) + i < 0 THEN 0 ELSE Len(s) + i)
    ELSE (IF i > Len(s) THEN Len(s) ELSE i)

py_slice(s, a, b) == SubSeq(s, SliceIndex(s, a) + 1, SliceIndex(s, b))

\* bytes.find(sub, start): the index, from 0, of the first sub at or after
\* start, -1 when there is none; a str argument is a TypeError.
bytes_find(raw, sub, start) ==
    IF sub.type # "bytes" THEN [exc |-> "TypeError", val |-> -1]
    ELSE IF \E i \in (start + 1)..Len(raw) : raw[i] = sub.byte
         THEN [exc |-> "",
               val |-> (CHOOSE i \in (start + 1)..Len(raw) :
                          raw[i] = sub.byte /\ \A j \in (start + 1)..(i - 1) : raw[j] # sub.byte)
                       - 1]
         ELSE [exc |-> "", val |-> -1]

\* int(b.decode("ascii")) for a length field: surrounding spaces are
\* stripped; one decimal digit is its value, anything else a ValueError.
int_bytes(b) ==
    Bind(SelectSeq(b, LAMBDA c : c # " "), LAMBDA d :
    IF Len(d) = 1 /\ IsDigit(d[1]) THEN [exc |-> "", val |-> DigitValue(d[1])]
    ELSE [exc |-> "ValueError", val |-> 0])

\* Lines 133-140: the class chosen by fmt is called with the single byte
\* raw[null_char + 1].  GitCommit, GitTree and GitTag take no argument;
\* GitBlob(data) runs deserialize, which reads the unset self.data.
construct(fmt, raw, null_char) ==
    IF fmt \in {<<"c", "o", "m", "m", "i", "t">>, <<"t", "r", "e", "e">>, <<"t", "a", "g">>}
    THEN IF null_char + 2 > Len(raw) THEN "IndexError" ELSE "TypeError"
    ELSE IF fmt = BlobFmt
         THEN IF null_char + 2 > Len(raw) THEN "IndexError" ELSE "AttributeError"
    ELSE "UnknownObjectKind"

\* Lines 124-140 on the decompressed bytes: the exception raised.  No path
\* returns an object.
decode(raw) ==
    Bind(bytes_find(raw, [type |-> "bytes", byte |-> " "], 0), LAMBDA space :
    Bind(bytes_find(raw, [type |-> "str", byte |-> NulByte], space.val), LAMBDA null_char :
    IF null_char.exc # "" THEN null_char.exc
    ELSE Bind(int_bytes(py_slice(raw, space.val, null_char.val)), LAMBDA size :
         IF size.exc # "" THEN size.exc
         ELSE IF size.val # Len(raw) - null_char.val - 1 THEN "MalformedObject"
         ELSE construct(py_slice(raw, 0, space.val), raw, null_char.val))))

\* object_read(repo, sha): [exc, none, obj]
object_read(f, repo, sha) ==
    Bind(repo_file(f, repo, object_segments(sha), FALSE), LAMBDA path :
    IF path.exc # "" THEN [exc |-> path.exc, none |-> FALSE, obj |-> NoObj]
    ELSE IF path.none THEN [exc |-> "TypeError", none |-> FALSE, obj |-> NoObj]
    ELSE IF ~isfile(f, path.val) THEN [exc |-> "", none |-> TRUE, obj |-> NoObj]
    ELSE Bind(zlib_decompress(f[path.val].content), LAMBDA raw :
         IF raw.exc # "" THEN [exc |-> raw.exc, none |-> FALSE, obj |-> NoObj]
         ELSE [exc |-> decode(raw.val), none |-> FALSE, obj |-> NoObj]))

(***************************************************************************)
(* The store of one repository, used by one process.  wlog maps            *)
(* <<gitdir, object>> (gitdir << >> for a write without a repository) to   *)
(* the digest the first write returned, the object file's path, the number *)
(* of times the file was opened for writing and its content after the      *)
(* first write.                                                            *)
(***************************************************************************)
StoreInit ==
    /\ fs = RootFs
    /\ ret = NoRet
    /\ find = NoFind
    /\ created = {}
    /\ wlog = NoWlog
    /\ pc = << >>
    /\ loc = << >>

\* repo_create(path): the one repository the store is used on.
StoreCreate(path) ==
    /\ created = {}
    /\ RepoCreateCall(path)

Logged(log, key, r, f) ==
    IF key \in DOMAIN log
    THEN [log EXCEPT ![key].opens = @ + (IF r.opened THEN 1 ELSE 0)]
    ELSE (key :> [sha     |-> r.sha,
                  path    |-> r.path,
                  opens   |-> IF r.opened THEN 1 ELSE 0,
                  content |-> IF isfile(f, r.path) THEN f[r.path].content ELSE << >>])
         @@ log

\* object_write(obj, repo) with the handle of a created repository, or
\* object_write(obj) when repo is NoRepo.
WriteCall(obj, repo) ==
    \E r \in {object_write(fs, obj, repo)} :
       /\ fs' = r.fs
       /\ ret' = [Ret("object_write", repo.worktree, repo # NoRepo,
                      [exc |-> r.exc, none |-> FALSE, val |-> repo], fs)
                    EXCEPT !.sha = r.sha, !.obj = obj]
       /\ wlog' = Logged(wlog, <<repo.gitdir, obj>>, r, r.fs)
       /\ UNCHANGED <<find, created, pc, loc>>

ObjectWriteCall(obj, path) ==
    /\ path \in created
    /\ \E h \in {Repository(fs, path, FALSE)} : h.exc = "" /\ WriteCall(obj, h.val)

ObjectHashCall(obj) == WriteCall(obj, NoRepo)

\* object_read(repo, sha) with the handle of a created repository.
ObjectReadCall(path, sha) ==
    /\ path \in created
    /\ \E h \in {Repository(fs, path, FALSE)} :
          /\ h.exc = ""
          /\ \E r \in {object_read(fs, h.val, sha)} :
                ret' = [Ret("object_read", path, TRUE,
                            [exc |-> r.exc, none |-> r.none, val |-> h.val], fs)
                          EXCEPT !.sha = sha, !.obj = r.obj]
    /\ UNCHANGED <<fs, find, created, wlog, pc, loc>>

StoreNext ==
    \/ \E path \in WorkPaths : StoreCreate(path)
    \/ \E obj \in Objects, path \in WorkPaths : ObjectWriteCall(obj, path)
    \/ \E obj \in Objects : ObjectHashCall(obj)
    \/ \E path \in WorkPaths, sha \in Digests : ObjectReadCall(path, sha)

StoreSpec == StoreInit /\ [][StoreNext]_vars

(***************************************************************************)
(* Properties of the object store.                                         *)
(***************************************************************************)
ObjectPath(gitdir, sha) == gitdir \o object_segments(sha)

\* The entries of wlog made by writes into a repository.
StoreKeys == { k \in DOMAIN wlog : k[1] # Root }

\* C1: object_read of a digest that object_write returned for an object o
\* written to the same repository returns, without raising, an object with
\* o's kind and payload.
C1_WriteReadRoundTrip ==
    \A k \in StoreKeys :
        (ret.op = "object_read" /\ ret.repo.gitdir = k[1] /\ ret.sha = wlog[k].sha)
        => /\ ret.exc = ""
           /\ ~ret.none
           /\ ret.obj = k[2]

\* C2: every object_write into a repository returns without raising the
\* digest the first write of that object returned; the object file was
\* opened for writing exactly once and still holds what the first write
\* left in it.
C2_WriteOnce ==
    /\ \A k \in StoreKeys :
          /\ wlog[k].opens = 1
          /\ isfile(fs, wlog[k].path)
          /\ fs[wlog[k].path].content = wlog[k].content
          /\ wlog[k].path = ObjectPath(k[1], wlog[k].sha)
    /\ (ret.op = "object_write" /\ ret.flag)
       => /\ ret.exc = ""
          /\ <<ret.repo.gitdir, ret.obj>> \in StoreKeys
          /\ ret.sha = wlog[<<ret.repo.gitdir, ret.obj>>].sha

\* An object was written again: the last call was an object_write that found
\* its file in place and left the file system as it was.
C2_Witness ==
    /\ ret.op = "object_write"
    /\ ret.flag
    /\ <<ret.repo.gitdir, ret.obj>> \in StoreKeys
    /\ isfile(ret.pre, wlog[<<ret.repo.gitdir, ret.obj>>].path)
    /\ ret.pre = fs

\* C3: object_write(o) without a repository returns the digest that
\* object_write(o, repo) returns, and changes nothing in the file system.
C3_HashOnly ==
    /\ (ret.op = "object_write" /\ ~ret.flag) => (ret.exc = "" /\ fs = ret.pre)
    /\ \A k \in StoreKeys :
          <<Root, k[2]>> \in DOMAIN wlog => wlog[<<Root, k[2]>>].sha = wlog[k].sha

\* An object was hashed without a repository and also written to one.
C3_Witness ==
    /\ ret.op = "object_write"
    /\ ~ret.flag
    /\ \E k \in StoreKeys : k[2] = ret.obj /\ wlog[k].sha = ret.sha

\* C4: object_read of a digest that has no object file returns None,
\* whether or not the fan-out directory exists, and changes nothing.
C4_ReadMissing ==
    (ret.op = "object_read" /\ ~isfile(ret.pre, ObjectPath(ret.repo.gitdir, ret.sha)))
    => /\ ret.exc = ""
       /\ ret.none
       /\ fs = ret.pre

\* The part of C4 the code keeps: with the fan-out directory present and no
\* object file, object_read returns None and changes nothing.
ReadMissingInFanout ==
    (ret.op = "object_read"
        /\ isdir(ret.pre, Parent(ObjectPath(ret.repo.gitdir, ret.sha)))
        /\ ~isfile(ret.pre, ObjectPath(ret.repo.gitdir, ret.sha)))
    => /\ ret.exc = ""
       /\ ret.none
       /\ fs = ret.pre

(***************************************************************************)
(* Concurrent use of one repository: NumWriters processes run object_write *)
(* and one process runs object_read, interleaved at the file system calls. *)
(* pc[p] is the call process p makes next, loc[p] its local variables.     *)
(***************************************************************************)
NumWriters == 2

Writers == 1..NumWriters

Reader == 0

ConcWorktree == <<"d">>

\* The repository the processes share, as repo_create leaves it.
ConcRepo == repo_create(RootFs, ConcWorktree).val

ConcFs == repo_create(RootFs, ConcWorktree).fs

Unread == <<"unread">>

Local(obj, sha) ==
    [obj |-> obj, sha |-> sha, dir |-> Root, path |-> Root, exc |-> "", line |-> 0,
     result |-> NoSha, none |-> FALSE, seen |-> Unread]

ConcInit ==
    /\ fs = ConcFs
    /\ ret = NoRet
    /\ find = NoFind
    /\ created = {ConcWorktree}
    /\ wlog = NoWlog
    /\ \E objs \in [Writers -> Objects], sha \in Digests :
          loc = [p \in Writers \cup {Reader} |->
                   IF p = Reader THEN Local(NoObj, sha) ELSE Local(objs[p], NoSha)]
    /\ pc = [p \in Writers \cup {Reader} |-> IF p = Reader THEN "dir_exists" ELSE "hash"]

Raise(p, exc, line) ==
    /\ pc' = [pc EXCEPT ![p] = "raised"]
    /\ loc' = [loc EXCEPT ![p].exc = exc, ![p].line = line]

\* Lines 144-148: serialize, frame and hash; no file system call.
WriterHash(p) ==
    /\ p \in Writers
    /\ pc[p] = "hash"
    /\ loc' = [loc EXCEPT ![p].sha = sha1(frame(loc[p].obj)),
                          ![p].dir = repo_path(ConcRepo, <<"objects", sha1(frame(loc[p].obj))[1]>>),
                          ![p].path = repo_path(ConcRepo, object_segments(sha1(frame(loc[p].obj))))]
    /\ pc' = [pc EXCEPT ![p] = "dir_exists"]
    /\ UNCHANGED <<fs, ret, find, created, wlog>>

\* repo_dir, lines 191-197, called with mkdir=True from line 151: the test
\* of the fan-out directory.
WriterDirExists(p) ==
    /\ p \in Writers
    /\ pc[p] = "dir_exists"
    /\ IF exists(fs, loc[p].dir)
       THEN IF isdir(fs, loc[p].dir)
            THEN pc' = [pc EXCEPT ![p] = "file_exists"] /\ loc' = loc
            ELSE Raise(p, "NotADirectory", 195)
       ELSE pc' = [pc EXCEPT ![p] = "makedirs"] /\ loc' = loc
    /\ UNCHANGED <<fs, ret, find, created, wlog>>

\* repo_dir, line 198: os.makedirs(path).
WriterMakedirs(p) ==
    /\ p \in Writers
    /\ pc[p] = "makedirs"
    /\ \E m \in {makedirs(fs, loc[p].dir)} :
          /\ fs' = m.fs
          /\ IF m.exc # "" THEN Raise(p, m.exc, 198)
             ELSE pc' = [pc EXCEPT ![p] = "file_exists"] /\ loc' = loc
    /\ UNCHANGED <<ret, find, created, wlog>>

\* Line 153: if not os.path.exists(path).
WriterFileExists(p) ==
    /\ p \in Writers
    /\ pc[p] = "file_exists"
    /\ IF missing(fs, loc[p].path)
       THEN pc' = [pc EXCEPT ![p] = "open"] /\ loc' = loc
       ELSE pc' = [pc EXCEPT ![p] = "done"] /\ loc' = [loc EXCEPT ![p].result = loc[p].sha]
    /\ UNCHANGED <<fs, ret, find, created, wlog>>

\* Line 154: open(path, "wb").
WriterOpen(p) ==
    /\ p \in Writers
    /\ pc[p] = "open"
    /\ \E o \in {open_w(fs, loc[p].path)} :
          /\ fs' = o.fs
          /\ IF o.exc # "" THEN Raise(p, o.exc, 154)
             ELSE pc' = [pc EXCEPT ![p] = "write"] /\ loc' = loc
    /\ UNCHANGED <<ret, find, created, wlog>>

\* Line 155 and the end of the with block, then return sha.
WriterWrite(p) ==
    /\ p \in Writers
    /\ pc[p] = "write"
    /\ fs' = write(fs, loc[p].path, zlib_compress(frame(loc[p].obj)))
    /\ pc' = [pc EXCEPT ![p] = "done"]
    /\ loc' = [loc EXCEPT ![p].result = loc[p].sha]
    /\ UNCHANGED <<ret, find, created, wlog>>

\* object_read, line 116: repo_file -> repo_dir with mkdir=False tests the
\* fan-out directory; without it repo_file returns None and
\* os.path.isfile(None) on line 118 is a TypeError.
ReaderDirExists ==
    /\ pc[Reader] = "dir_exists"
    /\ \E d \in {repo_file(fs, ConcRepo, object_segments(loc[Reader].sha), FALSE)} :
          IF d.exc # "" THEN Raise(Reader, d.exc, 116)
          ELSE IF d.none THEN Raise(Reader, "TypeError", 118)
          ELSE /\ pc' = [pc EXCEPT ![Reader] = "isfile"]
               /\ loc' = [loc EXCEPT ![Reader].path = d.val]
    /\ UNCHANGED <<fs, ret, find, created, wlog>>

\* Line 118: if not os.path.isfile(path): return None.
ReaderIsFile ==
    /\ pc[Reader] = "isfile"
    /\ IF isfile(fs, loc[Reader].path)
       THEN pc' = [pc EXCEPT ![Reader] = "read"] /\ loc' = loc
       ELSE pc' = [pc EXCEPT ![Reader] = "done"] /\ loc' = [loc EXCEPT ![Reader].none = TRUE]
    /\ UNCHANGED <<fs, ret, find, created, wlog>>

\* Lines 121-140: f.read() takes the file's bytes as they are now; then
\* decompress and decode, which raise.
ReaderRead ==
    /\ pc[Reader] = "read"
    /\ \E z \in {zlib_decompress(fs[loc[Reader].path].content)} :
          /\ pc' = [pc EXCEPT ![Reader] = "raised"]
          /\ loc' = [loc EXCEPT ![Reader].seen = fs[loc[Reader].path].content,
                                ![Reader].exc = IF z.exc # "" THEN z.exc ELSE decode(z.val),
                                ![Reader].line = IF z.exc # "" THEN 122 ELSE 127]
    /\ UNCHANGED <<fs, ret, find, created, wlog>>

ConcNext ==
    \/ \E p \in Writers : WriterHash(p)
    \/ \E p \in Writers : WriterDirExists(p)
    \/ \E p \in Writers : WriterMakedirs(p)
    \/ \E p \in Writers : WriterFileExists(p)
    \/ \E p \in Writers : WriterOpen(p)
    \/ \E p \in Writers : WriterWrite(p)
    \/ ReaderDirExists
    \/ ReaderIsFile
    \/ ReaderRead

ConcSpec == ConcInit /\ [][ConcNext]_vars

(***************************************************************************)
(* Properties of concurrent use.                                           *)
(***************************************************************************)
\* The object whose digest is sha.
ObjectOf(sha) == CHOOSE o \in Objects : sha1(frame(o)) = sha

\* C9: repo_dir(..., mkdir=True) run by interleaved processes on the same
\* missing directory succeeds in each of them; it raises only NotADirectory,
\* and only when the path exists as a non-directory.
C9_MkdirTolerant ==
    \A p \in Writers :
        (pc[p] = "raised" /\ loc[p].line \in {195, 198})
        => (loc[p].exc = "NotADirectory" /\ isfile(fs, loc[p].dir))

\* C10: under every interleaving of the existence check, the open and the
\* write of processes writing to one repository, no process raises in these
\* steps and each returns its object's digest; when all have ended, the
\* object file of each that returned holds the complete compressed frame;
\* and a concurrent object_read that read the file got the complete
\* compressed frame.
C10_ConcurrentWrite ==
    /\ \A p \in Writers :
          /\ (pc[p] = "raised") => loc[p].line \notin {153, 154, 155}
          /\ (pc[p] = "done") => loc[p].result = sha1(frame(loc[p].obj))
    /\ (\A p \in Writers : pc[p] \in {"done", "raised"})
       => \A p \in Writers :
             pc[p] = "done"
             => /\ isfile(fs, loc[p].path)
                /\ fs[loc[p].path].content = zlib_compress(frame(loc[p].obj))
    /\ (loc[Reader].seen # Unread)
       => loc[Reader].seen = zlib_compress(frame(ObjectOf(loc[Reader].sha)))

\* The parts of C10 the code keeps: what the writers return and what the
\* object files hold in the end.
ConcurrentWriteResult ==
    /\ \A p \in Writers :
          /\ (pc[p] = "raised") => loc[p].line \notin {153, 154, 155}
          /\ (pc[p] = "done") => loc[p].result = sha1(frame(loc[p].obj))
    /\ (\A p \in Writers : pc[p] \in {"done", "raised"})
       => \A p \in Writers :
             pc[p] = "done"
             => /\ isfile(fs, loc[p].path)
                /\ fs[loc[p].path].content = zlib_compress(frame(loc[p].obj))

====
